---- MODULE Spec2Model ----
(***************************************************************************)
(* Analytics core of the stock lag-correlation system: the lagged          *)
(* correlation scan (CorrelationEngine.analyze_all_pairs), the hit-rate    *)
(* backtest (BacktestEngine.calculate_hit_rate) and the candidate ranking  *)
(* (TriggerDetector.find_candidate_pairs).                                 *)
(*                                                                         *)
(* Numbers.  Returns are integers (a fixed-point scale of the float        *)
(* returns).  A Pearson correlation r is kept exactly as <<sgn, num, den>> *)
(* with r = sgn * sqrt(num / den); den = 0 is NaN.  A p-value is the       *)
(* numerator of a fraction over PDen.  NaN is the missing value of pandas. *)
(* Float rounding is not modelled.                                         *)
(***************************************************************************)
EXTENDS Integers, Sequences, FiniteSets, TLC

\* ------------------------------------------------------------------ bounds
MaxLen == 4          \* rows (dates) of returns_df in the correlation scan
MaxLag == 2          \* largest max_lag handed to analyze_all_pairs
MaxDate == 3         \* calendar days the backtest frame's index is drawn from
MaxRows == 3         \* rows of correlations_df handed to find_candidate_pairs
MaxTopN == 2         \* largest top_n handed to find_candidate_pairs
MaxClicks == 2       \* clicks of the user on a page of the frontend
MaxTicks == 3        \* ticks of the polling timers of SettingsPanel

\* --------------------------------------------------------------- constants
NaN == -999          \* pandas/numpy missing value (not a number)
PDen == 1000         \* p-values are PVals / PDen
AlphaNum == 5        \* alpha = 0.05 = AlphaNum / AlphaDen
AlphaDen == 100
CorrDen == 10        \* min_correlation = k / CorrDen

RetVals == {0, 1}                     \* returns present in a cell
Cell == RetVals \cup {NaN}
WideVals == {0, 1, 2}                 \* returns of a ticker traded on every date
PGrid == {0, 1, 5, 1000}              \* p-values pearsonr may return: 0, 0.001, 0.005, 1
MinCorrSet == {0, 3, 6}               \* min_correlation: 0, 0.30 (default), 0.60
BtCell == {NaN, -2, 0, 1}             \* returns of the backtest frame, in percent
BtLags == {1, 2}                      \* lag of the backtested relationship
\* <<trigger_threshold, response_threshold>>; <<2, 2>> is the default 0.02
Thresholds == {<<0, 0>>, <<2, 2>>, <<0, 2>>}
\* ranking inputs: keys <<ticker_a, ticker_b, lag>> of the stored relationships,
\* correlations in tenths, p-values over PDen, hit rates in tenths
RankKeys == {<<"A", "B", 1>>, <<"A", "C", 1>>, <<"B", "A", 1>>}
RankCorrs == {-7, 5}
RankPVals == {0, 1, 2}
NoRow == -1                           \* the relationship has no backtest row
RankHits == {NoRow, NaN, 5, 7}
TriggerTickers == {"A"}
\* trigger detection: today's returns in percent, volumes in lots
TgRets == {NaN, -2, 1, 2}
TgToday == {NaN, 0, 2, 3}
TgAvg == {NaN, 0, 2}
TgReturnThresholds == {0, 2}                \* 2 is the default 0.02
TgVolumeThresholds == {<<0, 1>>, <<3, 2>>}  \* <<3, 2>> is the default 1.5

VARIABLES
  \* correlation scan
  returns_df,        \* [ticker index -> [row -> Cell]], columns = tickers
  min_correlation,   \* self.min_correlation, in 1/CorrDen
  max_lag,           \* parameter max_lag
  ia, ib, lag,       \* loop position: enumerate(tickers), tickers, range(1, max_lag+1)
  results,           \* the list `results` of emitted records
  samples,           \* history: every lagged sample handed to the statistics,
                     \* with the p-value the library returned for it
  pc,                \* "idle" | "loop" | "done" | "error"
  \* hit-rate backtest
  bt_index,          \* returns_df.index: the dates of the frame, ascending
  bt_a, bt_b,        \* the columns returns_df[ticker_a], returns_df[ticker_b]
  has_b,             \* whether returns_df has a column ticker_b
  bt_lag,            \* parameter lag
  trigger_threshold, response_threshold,
  bt_k,              \* position of the loop in trigger_dates
  hits, total,
  seen,              \* history: per visited trigger date, whether it was counted / a hit,
                     \* and the date and value of the response that was read
  bt_out,            \* the returned dict, <<>> before the return
  bt_pc,             \* "idle" | "loop" | "done" | "error"
  \* candidate ranking
  correlations_df,   \* rows [ticker_a, ticker_b, lag, correlation, p_value, direction]
  backtest_df,       \* rows [ticker_a, ticker_b, lag, hit_rate]
  trigger_ticker, top_n,
  rk_out,            \* the returned frame: candidate rows with hit_rate and score
  rk_pc,             \* "idle" | "call" | "done"
  \* trigger detection
  latest_returns,    \* [position in the index -> today's return], index = tg_index
  volume_data,       \* [ticker -> [today_volume, avg_20d_volume]], rows may be absent
  return_threshold,
  volume_threshold,  \* the fraction <<num, den>>
  tg_k,              \* position of the loop in latest_returns.index
  triggered,         \* the list `triggered`
  tg_out,            \* the returned frame, <<>> before the return
  tg_pc,             \* "idle" | "loop" | "done" | "error"
  \* repeated and partitioned scans of the same frame
  run,               \* "first" | "again" | "reversed" | "parallel"
  first_results,     \* the list returned by the first scan, <<>> before
  owner,             \* [ticker_a position -> worker]: the partition of the scan
  wpos,              \* [worker -> number of cells of its slice it has done]
  buffer,            \* [worker -> its private list of records]
  \* CandidateList page (frontend)
  cl_server,         \* [timeframe -> the list GET /candidates returns for it]
  cl_timeframe,      \* state `timeframe`
  cl_candidates,        \* state `candidates`
  selectedCandidate, \* state `selectedCandidate`, NoCandidate for null
  correlationDetail, \* state `correlationDetail`, NoDetail for null
  cl_loading,        \* state `loading`
  detailLoading,     \* state `detailLoading`
  cl_error,          \* state `error` is not null
  cl_fetches,        \* [timeframe -> getCandidates calls awaiting their response]
  cl_details,        \* [<<tickerB, timeframe>> -> getCorrelationDetail calls awaiting]
  cl_clicks,         \* clicks of the user so far
  cl_pc,             \* "idle" | "mounted"
  \* Dashboard page (frontend)
  db_server,         \* [timeframe -> the list GET /triggers/today returns for it]
  db_timeframe,      \* state `timeframe`
  triggers,          \* state `triggers`
  db_loading,        \* state `loading`
  db_error,          \* state `error` is not null
  db_fetches,        \* [timeframe -> getTodayTriggers calls awaiting their response]
  db_clicks,         \* clicks of the user so far
  db_pc,             \* "idle" | "mounted"
  \* SettingsPanel page (frontend) and the batch behind /batch/run
  batchStatus,       \* state `batchStatus`: its status, "null" for null
  sp_error,          \* state `error` is not null
  backend,           \* status of the batch at the backend
  posts,             \* [PostStates -> triggerBatch calls in that state]
  polls,             \* [<<timer, PostStates>> -> getBatchStatus calls of a poll]
  timers,            \* the interval timers that are set (pollStatus handles)
  started,           \* number of setInterval calls so far
  sp_clicks,         \* clicks on the run button so far
  sp_ticks,          \* timer ticks so far
  sp_pc              \* "idle" | "mounted"

scanVars == <<returns_df, min_correlation, max_lag, ia, ib, lag, results, samples, pc>>
btVars == <<bt_index, bt_a, bt_b, has_b, bt_lag, trigger_threshold,
            response_threshold, bt_k, hits, total, seen, bt_out, bt_pc>>
rankVars == <<correlations_df, backtest_df, trigger_ticker, top_n, rk_out, rk_pc>>
tgVars == <<latest_returns, volume_data, return_threshold, volume_threshold,
            tg_k, triggered, tg_out, tg_pc>>
rerunVars == <<run, first_results, owner, wpos, buffer>>
clVars == <<cl_server, cl_timeframe, cl_candidates, selectedCandidate,
            correlationDetail, cl_loading, detailLoading, cl_error,
            cl_fetches, cl_details, cl_clicks, cl_pc>>
dbVars == <<db_server, db_timeframe, triggers, db_loading, db_error,
            db_fetches, db_clicks, db_pc>>
spVars == <<batchStatus, sp_error, backend, posts, polls, timers, started,
            sp_clicks, sp_ticks, sp_pc>>
uiVars == <<clVars, dbVars, spVars>>
vars == <<scanVars, btVars, rankVars, tgVars, rerunVars, uiVars>>

\* ------------------------------------------------------------ generic helpers
RECURSIVE SumSeq(_)
SumSeq(s) == IF s = <<>> THEN 0 ELSE Head(s) + SumSeq(Tail(s))

Dot(x, y) == SumSeq([i \in 1..Len(x) |-> x[i] * y[i]])

Abs(v) == IF v < 0 THEN -v ELSE v

\* the elements of a finite set of integers, ascending
RECURSIVE SortedSeq(_)
SortedSeq(S) ==
  IF S = {} THEN <<>>
  ELSE LET m == CHOOSE v \in S : \A w \in S : v <= w
       IN <<m>> \o SortedSeq(S \ {m})

\* ------------------------------------------------------- correlation engine
\* returns_df.columns.tolist(): the columns in the order of the frame, which
\* the "reversed" scan is handed with its columns in the opposite order
tickers == IF run = "reversed" THEN <<"C", "B", "A">> ELSE <<"A", "B", "C">>

\* n_tests = len(tickers) * (len(tickers) - 1) * max_lag
NTestsNoLag(n, ml) == n * (n - 1)
NTests(n, ml) == n * (n - 1) * ml

\* alpha_corrected = self.alpha / n_tests, as the fraction <<num, den>>
AlphaCorrected(n, ml) == <<AlphaNum, AlphaDen * NTests(n, ml)>>

\* series.dropna() of both columns, then index.intersection
CommonIdx(df, i, j) ==
  {d \in 1..MaxLen : df[i][d] # NaN /\ df[j][d] # NaN}

\* series.loc[common_idx].values
ValuesAt(df, i, idx) ==
  LET ds == SortedSeq(idx) IN [k \in 1..Len(ds) |-> df[i][ds[k]]]

\* Python a[:-lag] for lag >= 1
SliceHead(a, l) == SubSeq(a, 1, Len(a) - l)

\* Python b[lag:]
SliceTailOff(b, l) == SubSeq(b, l, Len(b) - 1)
SliceTail(b, l) == SubSeq(b, l + 1, Len(b))

CorrNaN == <<0, 0, 0>>

Sgn(v) == IF v > 0 THEN 1 ELSE IF v < 0 THEN -1 ELSE 0

\* np.corrcoef(x, y)[0, 1]: covariance over the product of deviations.
\* One point, or a constant sample, divides by zero: NaN.
CorrcoefSlope(x, y) ==
  LET m == Len(x)
      sxy == m * Dot(x, y) - SumSeq(x) * SumSeq(y)
      sxx == m * Dot(x, x) - SumSeq(x) * SumSeq(x)
      syy == m * Dot(y, y) - SumSeq(y) * SumSeq(y)
  IN IF m < 2 \/ sxx = 0 \/ syy = 0 THEN CorrNaN
     ELSE <<Sgn(sxy), sxy * sxy, sxx * sxx>>
Corrcoef(x, y) ==
  LET m == Len(x)
      sxy == m * Dot(x, y) - SumSeq(x) * SumSeq(y)
      sxx == m * Dot(x, x) - SumSeq(x) * SumSeq(x)
      syy == m * Dot(y, y) - SumSeq(y) * SumSeq(y)
  IN IF m < 2 \/ sxx = 0 \/ syy = 0 THEN CorrNaN
     ELSE <<Sgn(sxy), sxy * sxy, sxx * syy>>

IsConstant(x) == \A i \in 1..Len(x) : x[i] = x[1]

\* stats.pearsonr(x, y)[1], for samples of length >= 2 (shorter ones raise):
\* constant input gives NaN, two points give 1, |r| = 1 gives 0, r = 0 gives
\* 1; any other p-value is a result of the library's t-distribution, strictly
\* between 0 and 1, drawn from PGrid.
PearsonP(x, y) ==
  IF IsConstant(x) \/ IsConstant(y) THEN {NaN}
  ELSE IF Len(x) = 2 THEN {PDen}
  ELSE LET c == Corrcoef(x, y)
       IN IF c[2] = c[3] THEN {0}
          ELSE IF c[2] = 0 THEN {PDen}
          ELSE PGrid \ {0, PDen}

\* abs(corr) >= self.min_correlation (False on NaN)
AbsGE(c, mc) == c # CorrNaN /\ CorrDen * CorrDen * c[2] >= mc * mc * c[3]

\* p_val < alpha_corrected (False on NaN)
PLess(p, ac) == p # NaN /\ p * ac[2] < ac[1] * PDen

\* the filter of analyze_all_pairs
Passes(c, p, mc, ac) == AbsGE(c, mc) /\ PLess(p, ac)

\* 'positive' if corr > 0 else 'negative'
DirectionAlwaysPositive(c) == "positive"
Direction(c) == IF c[1] > 0 THEN "positive" ELSE "negative"

N == Len(tickers)

\* if ticker_a == ticker_b: continue
IsSelfPairNever(i, j) == FALSE
IsSelfPairOrEarlier(i, j) == j <= i
IsSelfPair(i, j) == tickers[i] = tickers[j]

\* null of selectedCandidate and of correlationDetail
NoCandidate == [tickerB |-> "null"]
NoDetail == [tickerB |-> "null"]

\* the CandidateList page before it is mounted
ClIdle ==
  /\ cl_pc = "idle" /\ cl_server = <<>> /\ cl_timeframe = "daily"
  /\ cl_candidates = <<>> /\ selectedCandidate = NoCandidate
  /\ correlationDetail = NoDetail
  /\ cl_loading = TRUE /\ detailLoading = FALSE /\ cl_error = FALSE
  /\ cl_fetches = <<>> /\ cl_details = <<>> /\ cl_clicks = 0

\* the Dashboard page before it is mounted
DbIdle ==
  /\ db_pc = "idle" /\ db_server = <<>> /\ db_timeframe = "daily"
  /\ triggers = <<>> /\ db_loading = TRUE /\ db_error = FALSE
  /\ db_fetches = <<>> /\ db_clicks = 0

\* the SettingsPanel page before it is mounted
SpIdle ==
  /\ sp_pc = "idle" /\ batchStatus = "null" /\ sp_error = FALSE
  /\ backend = "idle" /\ posts = <<>> /\ polls = <<>>
  /\ timers = {} /\ started = 0 /\ sp_clicks = 0 /\ sp_ticks = 0

UiIdle == ClIdle /\ DbIdle /\ SpIdle

\* the backtest engine at rest (the scan does not touch it)
BtIdle ==
  /\ bt_index = <<>> /\ bt_a = <<>> /\ bt_b = <<>> /\ has_b = FALSE
  /\ bt_lag = 1 /\ trigger_threshold = 0 /\ response_threshold = 0
  /\ bt_k = 1 /\ hits = 0 /\ total = 0 /\ seen = {}
  /\ bt_out = <<>> /\ bt_pc = "idle"

\* the ranking at rest
RankIdle ==
  /\ correlations_df = <<>> /\ backtest_df = <<>>
  /\ trigger_ticker = "A" /\ top_n = 0
  /\ rk_out = <<>> /\ rk_pc = "idle"

\* no repeated or partitioned scan
RerunIdle ==
  /\ run = "first" /\ first_results = <<>>
  /\ owner = <<>> /\ wpos = <<>> /\ buffer = <<>>

\* the trigger detection at rest
TgIdle ==
  /\ latest_returns = <<>> /\ volume_data = <<>>
  /\ return_threshold = 0 /\ volume_threshold = <<0, 1>>
  /\ tg_k = 1 /\ triggered = <<>> /\ tg_out = <<>> /\ tg_pc = "idle"

ScanInit ==
  \* the first ticker has gaps, the second a return on every date (the
  \* largest one on the latest date only), the third no return at all in this
  \* timeframe
  /\ \E ca \in [1..MaxLen -> Cell],
        cb \in {f \in [1..MaxLen -> WideVals] : \A d \in 1..(MaxLen - 1) : f[d] \in RetVals} :
       returns_df = <<ca, cb, [d \in 1..MaxLen |-> NaN]>>
  /\ min_correlation \in MinCorrSet
  /\ max_lag = MaxLag
  /\ ia = 1 /\ ib = 1 /\ lag = 1
  /\ results = <<>>
  /\ samples = {}
  /\ pc = "loop"
  /\ BtIdle
  /\ RankIdle
  /\ TgIdle
  /\ RerunIdle
  /\ UiIdle

\* leave the innermost loop: next ticker_b, or next ticker_a, or return
NextPair ==
  /\ lag' = 1
  /\ IF ib < N THEN ia' = ia /\ ib' = ib + 1 /\ pc' = pc
     ELSE IF ia < N THEN ia' = ia + 1 /\ ib' = 1 /\ pc' = pc
     ELSE ia' = ia /\ ib' = ib /\ pc' = "done"

\* next lag of the same pair, or leave the loop after max_lag
NextLag ==
  IF lag < max_lag
  THEN lag' = lag + 1 /\ UNCHANGED <<ia, ib, pc>>
  ELSE NextPair

\* pearsonr is a function of its two arrays: the p-value it returned for a
\* sample before is the one it returns again
PValueOf(x, y) ==
  LET known == {s \in samples : s.x = x /\ s.y = y}
  IN IF known = {} THEN PearsonP(x, y) ELSE {s.p : s \in known}

a_values == ValuesAt(returns_df, ia, CommonIdx(returns_df, ia, ib))
b_values == ValuesAt(returns_df, ib, CommonIdx(returns_df, ia, ib))

\* the pass of the ticker_b loop that ends in that `continue`
SkipSelfPair ==
  /\ pc = "loop" /\ IsSelfPair(ia, ib)
  /\ NextPair
  /\ UNCHANGED <<returns_df, min_correlation, max_lag, results, samples>>
  /\ UNCHANGED <<btVars, rankVars, tgVars, rerunVars, uiVars>>

\* if len(a_values) <= lag: continue
SkipShortLag ==
  /\ pc = "loop" /\ ~IsSelfPair(ia, ib)
  /\ Len(a_values) <= lag
  /\ NextLag
  /\ UNCHANGED <<returns_df, min_correlation, max_lag, results, samples>>
  /\ UNCHANGED <<btVars, rankVars, tgVars, rerunVars, uiVars>>

\* corr, p_val = self._calculate_lagged_correlation(a_values, b_values, lag),
\* read as its docstring has it: (correlation, p_value), the p-value being
\* calculate_p_value's; then the threshold filter and results.append.
ComputeLag ==
  /\ pc = "loop" /\ ~IsSelfPair(ia, ib)
  /\ Len(a_values) > lag
  /\ LET a_lagged == SliceHead(a_values, lag)
         b_shifted == SliceTail(b_values, lag)
         corr == Corrcoef(a_lagged, b_shifted)
     IN /\ Len(a_lagged) >= 2
        /\ \E p_val \in PValueOf(a_lagged, b_shifted) :
          /\ results' =
               IF Passes(corr, p_val, min_correlation, AlphaCorrected(N, max_lag))
               THEN Append(results,
                      [ticker_a |-> tickers[ia], ticker_b |-> tickers[ib],
                       lag |-> lag, correlation |-> corr, p_value |-> p_val,
                       direction |-> Direction(corr)])
               ELSE results
          /\ samples' = samples \cup
             {[ticker_a |-> tickers[ia], ticker_b |-> tickers[ib], lag |-> lag,
               a |-> a_values, b |-> b_values, x |-> a_lagged, y |-> b_shifted,
               p |-> p_val]}
  /\ NextLag
  /\ UNCHANGED <<returns_df, min_correlation, max_lag>>
  /\ UNCHANGED <<btVars, rankVars, tgVars, rerunVars, uiVars>>

\* stats.pearsonr raises ValueError on a sample shorter than two points:
\* the scan ends with the exception, returning nothing.
ScanError ==
  /\ pc = "loop" /\ ~IsSelfPair(ia, ib)
  /\ Len(a_values) > lag
  /\ LET a_lagged == SliceHead(a_values, lag)
         b_shifted == SliceTail(b_values, lag)
     IN /\ Len(a_lagged) < 2
        /\ samples' = samples \cup
             {[ticker_a |-> tickers[ia], ticker_b |-> tickers[ib], lag |-> lag,
               a |-> a_values, b |-> b_values, x |-> a_lagged, y |-> b_shifted,
               p |-> NaN]}
  /\ pc' = "error"
  /\ UNCHANGED <<returns_df, min_correlation, max_lag, ia, ib, lag, results>>
  /\ UNCHANGED <<btVars, rankVars, tgVars, rerunVars, uiVars>>

ScanNext == SkipSelfPair \/ SkipShortLag \/ ComputeLag \/ ScanError

SpecScan == ScanInit /\ [][ScanNext]_vars

\* ------------------------------------------- the scan called a second time
\* a frame for the repeated scans: the first ticker has gaps, the second
\* alternates between two returns, the third has no return; no bar on the
\* correlation, so that every significant relationship is a record
RerunInit ==
  /\ \E ca \in [1..MaxLen -> Cell] :
       returns_df = <<ca, [d \in 1..MaxLen |-> d % 2], [d \in 1..MaxLen |-> NaN]>>
  /\ min_correlation = 0
  /\ max_lag = MaxLag
  /\ ia = 1 /\ ib = 1 /\ lag = 1
  /\ results = <<>>
  /\ samples = {}
  /\ pc = "loop"
  /\ BtIdle
  /\ RankIdle
  /\ TgIdle
  /\ RerunIdle
  /\ UiIdle

\* the frame with its columns in the opposite order
ReverseColumns(df) == [k \in 1..Len(df) |-> df[Len(df) + 1 - k]]

\* analyze_all_pairs called again by the same caller with the same
\* parameters, on the same frame or on the frame with its columns reversed
Rescan ==
  /\ pc = "done" /\ run = "first"
  /\ run' \in {"again", "reversed"}
  /\ returns_df' = IF run' = "reversed" THEN ReverseColumns(returns_df) ELSE returns_df
  /\ first_results' = results
  /\ results' = <<>>
  /\ ia' = 1 /\ ib' = 1 /\ lag' = 1
  /\ pc' = "loop"
  /\ UNCHANGED <<min_correlation, max_lag, samples, owner, wpos, buffer>>
  /\ UNCHANGED <<btVars, rankVars, tgVars, uiVars>>

\* ------------------------------------------------- the partitioned scan
Workers == {1, 2}

\* the ticker_a positions of a worker's slice, ascending
RowsOf(w) == SortedSeq({i \in 1..N : owner[i] = w})

\* the cells <<ticker_a, ticker_b, lag>> of a worker's slice, in loop order
CellsOf(w) ==
  LET rows == RowsOf(w)
      per == N * max_lag
  IN [k \in 1..(Len(rows) * per) |->
        <<rows[((k - 1) \div per) + 1],
          (((k - 1) \div max_lag) % N) + 1,
          ((k - 1) % max_lag) + 1>>]

\* the body of the three loops of analyze_all_pairs for one ticker_a,
\* ticker_b and lag: the records it appends, given the p-value of the sample
LoopBodyUnfiltered(i, j, l, p_val) ==
  IF IsSelfPair(i, j) THEN <<>>
  ELSE LET av == ValuesAt(returns_df, i, CommonIdx(returns_df, i, j))
           bv == ValuesAt(returns_df, j, CommonIdx(returns_df, i, j))
       IN IF Len(av) <= l THEN <<>>
          ELSE LET corr == Corrcoef(SliceHead(av, l), SliceTail(bv, l))
               IN <<[ticker_a |-> tickers[i], ticker_b |-> tickers[j],
                     lag |-> l, correlation |-> corr, p_value |-> p_val,
                     direction |-> Direction(corr)]>>
LoopBody(i, j, l, p_val) ==
  IF IsSelfPair(i, j) THEN <<>>
  ELSE LET av == ValuesAt(returns_df, i, CommonIdx(returns_df, i, j))
           bv == ValuesAt(returns_df, j, CommonIdx(returns_df, i, j))
       IN IF Len(av) <= l THEN <<>>
          ELSE LET corr == Corrcoef(SliceHead(av, l), SliceTail(bv, l))
               IN IF Passes(corr, p_val, min_correlation, AlphaCorrected(N, max_lag))
                  THEN <<[ticker_a |-> tickers[i], ticker_b |-> tickers[j],
                          lag |-> l, correlation |-> corr, p_value |-> p_val,
                          direction |-> Direction(corr)]>>
                  ELSE <<>>

\* the p-values the library returns for the sample of a cell (NaN where the
\* cell computes nothing)
CellPValues(i, j, l) ==
  LET av == ValuesAt(returns_df, i, CommonIdx(returns_df, i, j))
      bv == ValuesAt(returns_df, j, CommonIdx(returns_df, i, j))
  IN IF Len(av) <= l THEN {NaN}
     ELSE PValueOf(SliceHead(av, l), SliceTail(bv, l))

\* the scan of a frame that was scanned sequentially is run again with the
\* ticker_a loop partitioned among the workers, each with an empty buffer
ParStart ==
  /\ pc = "done" /\ run = "first"
  /\ run' = "parallel"
  \* (the workers are interchangeable: the first row is worker 1's)
  /\ owner' \in {f \in [1..N -> Workers] : f[1] = 1}
  /\ wpos' = [w \in Workers |-> 0]
  /\ buffer' = [w \in Workers |-> <<>>]
  /\ first_results' = results
  /\ results' = <<>>
  /\ pc' = "workers"
  /\ UNCHANGED <<returns_df, min_correlation, max_lag, ia, ib, lag, samples>>
  /\ UNCHANGED <<btVars, rankVars, tgVars, uiVars>>

\* a worker runs the loop body on the next cell of its slice and appends to
\* its own buffer
WorkerStep(w) ==
  /\ pc = "workers"
  /\ wpos[w] < Len(CellsOf(w))
  /\ LET c == CellsOf(w)[wpos[w] + 1]
     IN \E p_val \in CellPValues(c[1], c[2], c[3]) :
          buffer' = [buffer EXCEPT ![w] = @ \o LoopBody(c[1], c[2], c[3], p_val)]
  /\ wpos' = [wpos EXCEPT ![w] = @ + 1]
  /\ UNCHANGED <<scanVars, run, first_results, owner, uiVars>>
  /\ UNCHANGED <<btVars, rankVars, tgVars, uiVars>>

AllWorkersDone == \A w \in Workers : wpos[w] = Len(CellsOf(w))

\* after all workers completed: the buffers concatenated, in either order
Merge ==
  /\ pc = "workers"
  /\ AllWorkersDone
  /\ \E first \in Workers, second \in Workers :
       /\ first # second
       /\ results' = buffer[first] \o buffer[second]
  /\ pc' = "done"
  /\ UNCHANGED <<returns_df, min_correlation, max_lag, ia, ib, lag, samples>>
  /\ UNCHANGED <<btVars, rankVars, tgVars, rerunVars, uiVars>>

RerunNext == ScanNext \/ Rescan \/ ParStart \/ (\E w \in Workers : WorkerStep(w)) \/ Merge

SpecRerun == RerunInit /\ [][RerunNext]_vars

\* --------------------------------------------------------- backtest engine
\* the correlation scan at rest (the backtest does not touch it)
ScanIdle ==
  /\ returns_df = <<>> /\ min_correlation = 0 /\ max_lag = 1
  /\ ia = 1 /\ ib = 1 /\ lag = 1
  /\ results = <<>> /\ samples = {} /\ pc = "idle"

\* trigger_mask = a_returns.abs() >= trigger_threshold (False on NaN)
IsTrigger(v, thr) == v # NaN /\ Abs(v) >= thr

\* trigger_dates = a_returns[trigger_mask].index, as positions of the index
TriggerRows(a, thr) == SortedSeq({i \in 1..Len(a) : IsTrigger(a[i], thr)})

\* future_dates = returns_df.index[returns_df.index > date], as positions
FutureRowsInclusive(index, i) == SortedSeq({j \in 1..Len(index) : index[j] >= index[i]})
FutureRows(index, i) == SortedSeq({j \in 1..Len(index) : index[j] > index[i]})

\* np.sign: NaN stays NaN
NpSign(v) == IF v = NaN THEN NaN ELSE Sgn(v)

\* np.sign(b_response) == a_direction and abs(b_response) >= response_threshold
\* (a comparison with NaN is False)
IsHitNoMagnitude(a_val, b_response, thr) ==
  b_response # NaN /\ NpSign(b_response) = NpSign(a_val)
IsHitNonzero(a_val, b_response, thr) ==
  /\ b_response # NaN
  /\ a_val * b_response > 0
  /\ Abs(b_response) >= thr
IsHit(a_val, b_response, thr) ==
  /\ b_response # NaN
  /\ NpSign(b_response) = NpSign(a_val)
  /\ Abs(b_response) >= thr

\* hit_rate = hits / total if total > 0 else 0.0, as the fraction <<num, den>>
HitRate(h, t) == IF t > 0 THEN <<h, t>> ELSE <<0, 1>>

BtInit ==
  /\ \E S \in SUBSET (1..MaxDate) :
       /\ S # {}
       /\ bt_index = SortedSeq(S)
       /\ bt_a \in [1..Cardinality(S) -> BtCell]
       \* the return of ticker_b on the first date is never read (a response
       \* lies after its trigger date): it is 0 here
       /\ \/ /\ has_b = TRUE
             /\ bt_b \in {f \in [1..Cardinality(S) -> BtCell] : f[1] = 0}
          \/ has_b = FALSE /\ bt_b = <<>>
  /\ bt_lag \in BtLags
  /\ \E th \in Thresholds : trigger_threshold = th[1] /\ response_threshold = th[2]
  /\ bt_k = 1 /\ hits = 0 /\ total = 0 /\ seen = {}
  /\ bt_out = <<>>
  /\ bt_pc = "loop"
  /\ ScanIdle
  /\ RankIdle
  /\ TgIdle
  /\ RerunIdle
  /\ UiIdle

trigger_dates == TriggerRows(bt_a, trigger_threshold)

\* b_returns = returns_df[ticker_b] on a frame without that column: KeyError
BtKeyDefault ==
  /\ bt_pc = "loop" /\ ~has_b
  /\ bt_out' = [hit_rate |-> <<0, 1>>, total_signals |-> 0, successful_signals |-> 0,
                test_period_start |-> bt_index[1],
                test_period_end |-> bt_index[Len(bt_index)]]
  /\ bt_pc' = "done"
  /\ UNCHANGED <<bt_index, bt_a, bt_b, has_b, bt_lag, trigger_threshold,
                 response_threshold, bt_k, hits, total, seen>>
  /\ UNCHANGED <<scanVars, rankVars, tgVars, rerunVars, uiVars>>
BtKeyError ==
  /\ bt_pc = "loop" /\ ~has_b
  /\ bt_pc' = "error"
  /\ UNCHANGED <<bt_index, bt_a, bt_b, has_b, bt_lag, trigger_threshold,
                 response_threshold, bt_k, hits, total, seen, bt_out>>
  /\ UNCHANGED <<scanVars, rankVars, tgVars, rerunVars, uiVars>>

\* one pass of `for date in trigger_dates` that ends in `continue`:
\* fewer than lag later dates, or the later date is not in b_returns.index
BtSkip ==
  /\ bt_pc = "loop" /\ has_b
  /\ bt_k <= Len(trigger_dates)
  /\ LET date == trigger_dates[bt_k]
         future_dates == FutureRows(bt_index, date)
     IN IF Len(future_dates) < bt_lag THEN TRUE
        ELSE future_dates[bt_lag] \notin DOMAIN bt_b
  /\ seen' = seen \cup {[date |-> bt_index[trigger_dates[bt_k]],
                          counted |-> FALSE, hit |-> FALSE,
                          target |-> 0, response |-> NaN]}
  /\ bt_k' = bt_k + 1
  /\ UNCHANGED <<bt_index, bt_a, bt_b, has_b, bt_lag, trigger_threshold,
                 response_threshold, hits, total, bt_out, bt_pc>>
  /\ UNCHANGED <<scanVars, rankVars, tgVars, rerunVars, uiVars>>

\* one pass that reaches total += 1, and hits += 1 on a hit
BtCount ==
  /\ bt_pc = "loop" /\ has_b
  /\ bt_k <= Len(trigger_dates)
  /\ LET date == trigger_dates[bt_k]
         future_dates == FutureRows(bt_index, date)
     IN /\ Len(future_dates) >= bt_lag
        /\ future_dates[bt_lag] \in DOMAIN bt_b
        /\ LET future_date == future_dates[bt_lag]
               b_response == bt_b[future_date]
           IN /\ total' = total + 1
              /\ hits' = IF IsHit(bt_a[date], b_response, response_threshold)
                         THEN hits + 1 ELSE hits
              /\ seen' = seen \cup
                   {[date |-> bt_index[date], counted |-> TRUE,
                     hit |-> IsHit(bt_a[date], b_response, response_threshold),
                     target |-> bt_index[future_date], response |-> b_response]}
  /\ bt_k' = bt_k + 1
  /\ UNCHANGED <<bt_index, bt_a, bt_b, has_b, bt_lag, trigger_threshold,
                 response_threshold, bt_out, bt_pc>>
  /\ UNCHANGED <<scanVars, rankVars, tgVars, rerunVars, uiVars>>

\* after the loop: hit_rate and the returned dict
BtReturn ==
  /\ bt_pc = "loop" /\ has_b
  /\ bt_k > Len(trigger_dates)
  /\ bt_out' = [hit_rate |-> HitRate(hits, total),
                total_signals |-> total,
                successful_signals |-> hits,
                test_period_start |-> bt_index[1],
                test_period_end |-> bt_index[Len(bt_index)]]
  /\ bt_pc' = "done"
  /\ UNCHANGED <<bt_index, bt_a, bt_b, has_b, bt_lag, trigger_threshold,
                 response_threshold, bt_k, hits, total, seen>>
  /\ UNCHANGED <<scanVars, rankVars, tgVars, rerunVars, uiVars>>

BtNext == BtKeyError \/ BtSkip \/ BtCount \/ BtReturn

SpecBacktest == BtInit /\ [][BtNext]_vars

\* ----------------------------------------------------- trigger detector
ScoreNaN == <<0, 0>>

\* correlations_df[correlations_df['ticker_a'] == trigger_ticker]
FilterRowsAll(rows, t) == rows
FilterRows(rows, t) == SelectSeq(rows, LAMBDA r : r.ticker_a = t)

\* candidates.merge(backtest_df[[ticker_a, ticker_b, lag, hit_rate]],
\*   on=[ticker_a, ticker_b, lag], how='left'): the hit_rate of the row of the
\* same key, NaN without one (backtest_df holds one row per key)
MergedHitRate(r, bt) ==
  LET m == {k \in 1..Len(bt) : /\ bt[k].ticker_a = r.ticker_a
                               /\ bt[k].ticker_b = r.ticker_b
                               /\ bt[k].lag = r.lag}
  IN IF m = {} THEN NaN ELSE bt[CHOOSE k \in m : TRUE].hit_rate

\* candidates['p_value'].max(): NaN on an empty column
MaxPvalGlobal(cands) ==
  IF correlations_df = <<>> THEN NaN
  ELSE LET ps == {correlations_df[k].p_value : k \in 1..Len(correlations_df)}
       IN CHOOSE v \in ps : \A w \in ps : w <= v
MaxPval(cands) ==
  IF cands = <<>> THEN NaN
  ELSE LET ps == {cands[k].p_value : k \in 1..Len(cands)}
       IN CHOOSE v \in ps : \A w \in ps : w <= v

\* 1 - p_value / max_pval, as the fraction <<num, den>>; 0 / 0 is NaN
PValueNorm(pv, max_pval) ==
  IF max_pval = 0 THEN ScoreNaN ELSE <<max_pval - pv, max_pval>>

\* hit_rate.fillna(0)
FillNaKeep(v) == v
FillNa0(v) == IF v = NaN THEN 0 ELSE v

\* 0.4 * |correlation| + 0.4 * hit_rate.fillna(0) + 0.2 * p_value_norm,
\* with correlation and hit_rate in tenths: a fraction over 100 * den(norm)
Score(corr, hit_rate, norm) ==
  IF norm = ScoreNaN THEN ScoreNaN
  ELSE <<(4 * Abs(corr) + 4 * FillNa0(hit_rate)) * norm[2] + 20 * norm[1],
         100 * norm[2]>>

\* s1 > s2 on scores (False when either is NaN)
ScoreGT(s1, s2) ==
  s1 # ScoreNaN /\ s2 # ScoreNaN /\ s1[1] * s2[2] > s2[1] * s1[2]

\* DataFrame.nlargest(n, 'score'), keep='first': the n rows of largest score,
\* largest first, rows of equal score in their original order, NaN scores last
RECURSIVE SortDesc(_)
SortDesc(rows) ==
  IF rows = <<>> THEN <<>>
  ELSE LET best == CHOOSE k \in 1..Len(rows) :
                     /\ \A j \in 1..Len(rows) : ~ScoreGT(rows[j].score, rows[k].score)
                     /\ \A j \in 1..(k - 1) : ScoreGT(rows[k].score, rows[j].score)
           rest == [j \in 1..(Len(rows) - 1) |-> IF j < best THEN rows[j] ELSE rows[j + 1]]
       IN <<rows[best]>> \o SortDesc(rest)

Head0(rows, n) == IF n <= 0 THEN <<>> ELSE SubSeq(rows, 1, IF n < Len(rows) THEN n ELSE Len(rows))

NFirst(rows, n) == Head0(rows, n)
NLargest(rows, n) == Head0(SortDesc(rows), n)

RankItems == [key : RankKeys, correlation : RankCorrs, p_value : RankPVals, hit : RankHits]

RankInit ==
  /\ \E n \in 0..MaxRows :
     \E keys \in {f \in [1..n -> RankKeys] : \A i, j \in 1..n : i # j => f[i] # f[j]} :
     \E cs \in [1..n -> RankCorrs], ps \in [1..n -> RankPVals], hs \in [1..n -> RankHits] :
     LET items == [k \in 1..n |-> [key |-> keys[k], correlation |-> cs[k],
                                   p_value |-> ps[k], hit |-> hs[k]]]
     IN
       /\ items \in [1..n -> RankItems]
       /\ correlations_df =
            [k \in 1..n |-> [ticker_a |-> items[k].key[1], ticker_b |-> items[k].key[2],
                             lag |-> items[k].key[3],
                             correlation |-> items[k].correlation,
                             p_value |-> items[k].p_value,
                             direction |-> IF items[k].correlation > 0
                                           THEN "positive" ELSE "negative"]]
       /\ backtest_df =
            LET with == SelectSeq(items, LAMBDA it : it.hit # NoRow)
            IN [k \in 1..Len(with) |-> [ticker_a |-> with[k].key[1],
                                        ticker_b |-> with[k].key[2],
                                        lag |-> with[k].key[3],
                                        hit_rate |-> with[k].hit]]
  /\ trigger_ticker \in TriggerTickers
  /\ top_n \in 0..MaxTopN
  /\ rk_out = <<>>
  /\ rk_pc = "call"
  /\ ScanIdle
  /\ BtIdle
  /\ TgIdle
  /\ RerunIdle
  /\ UiIdle

\* TriggerDetector.find_candidate_pairs
FindCandidatePairs ==
  /\ rk_pc = "call"
  /\ LET candidates == FilterRows(correlations_df, trigger_ticker)
         max_pval == MaxPval(candidates)
         scored == [k \in 1..Len(candidates) |->
                      LET r == candidates[k]
                          hit_rate == MergedHitRate(r, backtest_df)
                          p_value_norm == PValueNorm(r.p_value, max_pval)
                      IN [ticker_a |-> r.ticker_a, ticker_b |-> r.ticker_b,
                          lag |-> r.lag, correlation |-> r.correlation,
                          p_value |-> r.p_value, direction |-> r.direction,
                          hit_rate |-> hit_rate, p_value_norm |-> p_value_norm,
                          score |-> Score(r.correlation, hit_rate, p_value_norm)]]
     IN rk_out' = NLargest(scored, top_n)
  /\ rk_pc' = "done"
  /\ UNCHANGED <<correlations_df, backtest_df, trigger_ticker, top_n>>
  /\ UNCHANGED <<scanVars, btVars, tgVars, rerunVars, uiVars>>

RankNext == FindCandidatePairs

SpecRank == RankInit /\ [][RankNext]_vars

\* ---------------------------------------- trigger detector: detect_triggers
tg_index == <<"A", "B">>              \* latest_returns.index

\* numpy division of the volumes: x / 0 is inf, 0 / 0 and NaN operands are NaN
\* (a ratio is the fraction <<num, den>>)
Inf == <<1, 0>>
RatioNaN == <<0, 0>>
VolRatio(today_vol, avg_vol) ==
  IF today_vol = NaN \/ avg_vol = NaN THEN RatioNaN
  ELSE IF avg_vol = 0 THEN (IF today_vol = 0 THEN RatioNaN ELSE Inf)
  ELSE <<today_vol, avg_vol>>

\* vol_ratio >= volume_threshold (False on NaN, True on inf)
RatioGE(ratio, thr) ==
  /\ ratio # RatioNaN
  /\ ratio = Inf \/ ratio[1] * thr[2] >= thr[1] * ratio[2]

\* abs(ret) >= return_threshold and vol_ratio >= volume_threshold
IsTriggered(ret, ratio, rthr, vthr) == Abs(ret) >= rthr /\ RatioGE(ratio, vthr)

TgInit ==
  /\ latest_returns \in [1..Len(tg_index) -> TgRets]
  /\ \E S \in SUBSET {tg_index[k] : k \in 1..Len(tg_index)} :
       volume_data \in [S -> [today_volume : TgToday, avg_20d_volume : TgAvg]]
  /\ return_threshold \in TgReturnThresholds
  /\ volume_threshold \in TgVolumeThresholds
  /\ tg_k = 1 /\ triggered = <<>> /\ tg_out = <<>>
  /\ tg_pc = "loop"
  /\ ScanIdle
  /\ BtIdle
  /\ RankIdle
  /\ RerunIdle
  /\ UiIdle

\* if pd.isna(ret): continue
TgSkipMissingReturn ==
  /\ tg_pc = "loop" /\ tg_k <= Len(tg_index)
  /\ latest_returns[tg_k] = NaN
  /\ tg_k' = tg_k + 1
  /\ UNCHANGED <<latest_returns, volume_data, return_threshold, volume_threshold,
                 triggered, tg_out, tg_pc>>
  /\ UNCHANGED <<scanVars, btVars, rankVars, rerunVars, uiVars>>

\* volume_data.loc[ticker, 'today_volume'] without a row of that ticker: KeyError
TgKeyError ==
  /\ tg_pc = "loop" /\ tg_k <= Len(tg_index)
  /\ latest_returns[tg_k] # NaN
  /\ tg_index[tg_k] \notin DOMAIN volume_data
  /\ tg_pc' = "error"
  /\ UNCHANGED <<latest_returns, volume_data, return_threshold, volume_threshold,
                 tg_k, triggered, tg_out>>
  /\ UNCHANGED <<scanVars, btVars, rankVars, rerunVars, uiVars>>

\* the volume ratio, the two conditions and triggered.append
TgEvaluate ==
  /\ tg_pc = "loop" /\ tg_k <= Len(tg_index)
  /\ latest_returns[tg_k] # NaN
  /\ tg_index[tg_k] \in DOMAIN volume_data
  /\ LET ticker == tg_index[tg_k]
         ret == latest_returns[tg_k]
         today_vol == volume_data[ticker].today_volume
         avg_vol == volume_data[ticker].avg_20d_volume
         vol_ratio == VolRatio(today_vol, avg_vol)
     IN triggered' =
          IF IsTriggered(ret, vol_ratio, return_threshold, volume_threshold)
          THEN Append(triggered, [ticker |-> ticker, return |-> ret,
                                  volume_ratio |-> vol_ratio])
          ELSE triggered
  /\ tg_k' = tg_k + 1
  /\ UNCHANGED <<latest_returns, volume_data, return_threshold, volume_threshold,
                 tg_out, tg_pc>>
  /\ UNCHANGED <<scanVars, btVars, rankVars, rerunVars, uiVars>>

\* return pd.DataFrame(triggered)
TgReturn ==
  /\ tg_pc = "loop" /\ tg_k > Len(tg_index)
  /\ tg_out' = triggered
  /\ tg_pc' = "done"
  /\ UNCHANGED <<latest_returns, volume_data, return_threshold, volume_threshold,
                 tg_k, triggered>>
  /\ UNCHANGED <<scanVars, btVars, rankVars, rerunVars, uiVars>>

TgNext == TgSkipMissingReturn \/ TgKeyError \/ TgEvaluate \/ TgReturn

SpecTrigger == TgInit /\ [][TgNext]_vars

\* ===================================================== CandidateList (page)
\* Hit rates are integers in units of 1/100000 (50000 is 0.5); JsonNull is the
\* JSON null of hit_rate.  A rendered text is Placeholder ('-') or <<"%", n>>,
\* the percentage n / 100 printed with two decimals.
Timeframes == {"daily", "weekly", "monthly"}
JsonNull == -1
Candidate(t, h) == [tickerB |-> t, lag |-> 1, hitRate |-> h]
\* the lists the backend may hold for a timeframe
CandidateLists ==
  { <<>>,
    <<Candidate("X", 0), Candidate("Y", JsonNull)>>,
    <<Candidate("Y", 33333)>> }
DetailKeys == {"X", "Y"} \X Timeframes

Placeholder == <<"-">>

\* transformCandidate copies hit_rate unchanged
transformCandidate(raw) == raw

\* (value * 100).toFixed(2) + '%'
formatPercent(value) == <<"%", (value + 5) \div 10>>
\* ToBoolean of a number | null
Truthy(v) == v # JsonNull /\ v # 0
\* {c.hitRate ? formatPercent(c.hitRate) : '-'}
RenderHitRate(hitRate) ==
  IF Truthy(hitRate) THEN formatPercent(hitRate) ELSE Placeholder

\* which branch of the page is shown
TableShown == ~cl_loading /\ ~cl_error /\ cl_candidates # <<>>
PanelShown == TableShown /\ selectedCandidate # NoCandidate
\* the hit-rate cell of each row of the ranking table, and of the detail panel
TableHitRates == [k \in 1..Len(cl_candidates) |-> RenderHitRate(cl_candidates[k].hitRate)]
PanelHitRate == RenderHitRate(selectedCandidate.hitRate)

\* the page after its first render and the first run of its effects
ClInit ==
  /\ cl_server \in [Timeframes -> CandidateLists]
  /\ cl_timeframe \in Timeframes
  /\ cl_candidates = <<>> /\ selectedCandidate = NoCandidate
  /\ correlationDetail = NoDetail
  /\ cl_loading = TRUE /\ detailLoading = FALSE /\ cl_error = FALSE
  /\ cl_fetches = [tf \in Timeframes |-> IF tf = cl_timeframe THEN 1 ELSE 0]
  /\ cl_details = [k \in DetailKeys |-> 0]
  /\ cl_clicks = 0 /\ cl_pc = "mounted"
  /\ ScanIdle
  /\ BtIdle /\ RankIdle /\ TgIdle /\ RerunIdle
  /\ DbIdle /\ SpIdle

\* the effect fetchDetail, run after a render in which selectedCandidate or
\* timeframe changed: one more request for the new selection, if there is one
FetchDetail(selected, tf) ==
  IF selected = NoCandidate
  THEN UNCHANGED <<cl_details, detailLoading>>
  ELSE /\ cl_details' = [cl_details EXCEPT ![<<selected.tickerB, tf>>] = @ + 1]
       /\ detailLoading' = TRUE

\* a click on a timeframe tab: setTimeframe, then both effects run
ClClickTab(tf) ==
  /\ cl_pc = "mounted" /\ cl_clicks < MaxClicks
  /\ tf # cl_timeframe
  /\ cl_clicks' = cl_clicks + 1
  /\ cl_timeframe' = tf
  /\ cl_loading' = TRUE /\ cl_error' = FALSE
  /\ cl_fetches' = [cl_fetches EXCEPT ![tf] = @ + 1]
  /\ FetchDetail(selectedCandidate, tf)
  /\ UNCHANGED <<cl_server, cl_candidates, selectedCandidate, correlationDetail, cl_pc>>
  /\ UNCHANGED <<scanVars, btVars, rankVars, tgVars, rerunVars, dbVars, spVars>>

\* getCandidates resolves: the rest of the try block and the finally block
ClResolveCandidates(tf) ==
  /\ cl_pc = "mounted" /\ cl_fetches[tf] > 0
  /\ cl_fetches' = [cl_fetches EXCEPT ![tf] = @ - 1]
  /\ LET data == [k \in 1..Len(cl_server[tf]) |-> transformCandidate(cl_server[tf][k])]
     IN /\ cl_candidates' = data
        /\ IF Len(data) > 0
           THEN /\ selectedCandidate' = data[1]
                /\ FetchDetail(data[1], cl_timeframe)
           ELSE UNCHANGED <<selectedCandidate, cl_details, detailLoading>>
  /\ cl_loading' = FALSE
  /\ UNCHANGED <<cl_server, cl_timeframe, correlationDetail, cl_error, cl_clicks, cl_pc>>
  /\ UNCHANGED <<scanVars, btVars, rankVars, tgVars, rerunVars, dbVars, spVars>>

\* getCandidates rejects: the catch block and the finally block
ClRejectCandidates(tf) ==
  /\ cl_pc = "mounted" /\ cl_fetches[tf] > 0
  /\ cl_fetches' = [cl_fetches EXCEPT ![tf] = @ - 1]
  /\ cl_error' = TRUE /\ cl_loading' = FALSE
  /\ UNCHANGED <<cl_server, cl_timeframe, cl_candidates, selectedCandidate,
                 correlationDetail, detailLoading, cl_details, cl_clicks, cl_pc>>
  /\ UNCHANGED <<scanVars, btVars, rankVars, tgVars, rerunVars, dbVars, spVars>>

\* a click on a row of the table
ClClickRow(k) ==
  /\ cl_pc = "mounted" /\ cl_clicks < MaxClicks
  /\ TableShown /\ k \in 1..Len(cl_candidates)
  /\ cl_candidates[k] # selectedCandidate
  /\ cl_clicks' = cl_clicks + 1
  /\ selectedCandidate' = cl_candidates[k]
  /\ FetchDetail(cl_candidates[k], cl_timeframe)
  /\ UNCHANGED <<cl_server, cl_timeframe, cl_candidates, correlationDetail,
                 cl_loading, cl_error, cl_fetches, cl_pc>>
  /\ UNCHANGED <<scanVars, btVars, rankVars, tgVars, rerunVars, dbVars, spVars>>

\* getCorrelationDetail resolves or rejects
ClResolveDetail(key) ==
  /\ cl_pc = "mounted" /\ cl_details[key] > 0
  /\ cl_details' = [cl_details EXCEPT ![key] = @ - 1]
  /\ correlationDetail' = [tickerB |-> key[1], timeframe |-> key[2]]
  /\ detailLoading' = FALSE
  /\ UNCHANGED <<cl_server, cl_timeframe, cl_candidates, selectedCandidate,
                 cl_loading, cl_error, cl_fetches, cl_clicks, cl_pc>>
  /\ UNCHANGED <<scanVars, btVars, rankVars, tgVars, rerunVars, dbVars, spVars>>

ClRejectDetail(key) ==
  /\ cl_pc = "mounted" /\ cl_details[key] > 0
  /\ cl_details' = [cl_details EXCEPT ![key] = @ - 1]
  /\ correlationDetail' = NoDetail
  /\ detailLoading' = FALSE
  /\ UNCHANGED <<cl_server, cl_timeframe, cl_candidates, selectedCandidate,
                 cl_loading, cl_error, cl_fetches, cl_clicks, cl_pc>>
  /\ UNCHANGED <<scanVars, btVars, rankVars, tgVars, rerunVars, dbVars, spVars>>

ClNext ==
  \/ \E tf \in Timeframes : ClClickTab(tf)
  \/ \E tf \in Timeframes : ClResolveCandidates(tf)
  \/ \E tf \in Timeframes : ClRejectCandidates(tf)
  \/ \E k \in 1..2 : ClClickRow(k)
  \/ \E key \in DetailKeys : ClResolveDetail(key)
  \/ \E key \in DetailKeys : ClRejectDetail(key)

SpecCandidateList == ClInit /\ [][ClNext]_vars

\* ========================================================= Dashboard (page)
\* the lists of trigger tickers the backend may hold for a timeframe
TriggerLists == { <<>>, <<"A">>, <<"A", "B">> }

\* the page after its first render and the first run of its effect
DbInit ==
  /\ db_server \in [Timeframes -> TriggerLists]
  /\ db_timeframe = "daily"
  /\ triggers = <<>> /\ db_loading = TRUE /\ db_error = FALSE
  /\ db_fetches = [tf \in Timeframes |-> IF tf = "daily" THEN 1 ELSE 0]
  /\ db_clicks = 0 /\ db_pc = "mounted"
  /\ ScanIdle
  /\ BtIdle /\ RankIdle /\ TgIdle /\ RerunIdle
  /\ ClIdle /\ SpIdle

\* a click on a timeframe tab: setTimeframe, then the effect runs fetchTriggers
DbClickTab(tf) ==
  /\ db_pc = "mounted" /\ db_clicks < MaxClicks
  /\ tf # db_timeframe
  /\ db_clicks' = db_clicks + 1
  /\ db_timeframe' = tf
  /\ db_loading' = TRUE /\ db_error' = FALSE
  /\ db_fetches' = [db_fetches EXCEPT ![tf] = @ + 1]
  /\ UNCHANGED <<db_server, triggers, db_pc>>
  /\ UNCHANGED <<scanVars, btVars, rankVars, tgVars, rerunVars, clVars, spVars>>

\* getTodayTriggers resolves: setTriggers(data), then the finally block
DbResolve(tf) ==
  /\ db_pc = "mounted" /\ db_fetches[tf] > 0
  /\ db_fetches' = [db_fetches EXCEPT ![tf] = @ - 1]
  /\ triggers' = db_server[tf]
  /\ db_loading' = FALSE
  /\ UNCHANGED <<db_server, db_timeframe, db_error, db_clicks, db_pc>>
  /\ UNCHANGED <<scanVars, btVars, rankVars, tgVars, rerunVars, clVars, spVars>>

\* getTodayTriggers rejects: the catch block, then the finally block
DbReject(tf) ==
  /\ db_pc = "mounted" /\ db_fetches[tf] > 0
  /\ db_fetches' = [db_fetches EXCEPT ![tf] = @ - 1]
  /\ db_error' = TRUE /\ db_loading' = FALSE
  /\ UNCHANGED <<db_server, db_timeframe, triggers, db_clicks, db_pc>>
  /\ UNCHANGED <<scanVars, btVars, rankVars, tgVars, rerunVars, clVars, spVars>>

DbNext ==
  \/ \E tf \in Timeframes : DbClickTab(tf)
  \/ \E tf \in Timeframes : DbResolve(tf)
  \/ \E tf \in Timeframes : DbReject(tf)

SpecDashboard == DbInit /\ [][DbNext]_vars

\* ===================================================== SettingsPanel (page)
BatchStatuses == {"idle", "running", "completed", "failed"}
\* a request is "sent" until the backend has answered it with a status
PostStates == {"sent"} \cup BatchStatuses
TimerIds == 1..MaxClicks
PollKeys == TimerIds \X PostStates

\* the page after fetchSettings has set batchStatus (or failed to)
SpInit ==
  /\ backend \in {"idle", "completed", "failed"}
  /\ \/ batchStatus = backend /\ sp_error = FALSE
     \/ batchStatus = "null" /\ sp_error = TRUE
  /\ posts = [st \in PostStates |-> 0]
  /\ polls = [k \in PollKeys |-> 0]
  /\ timers = {} /\ started = 0 /\ sp_clicks = 0 /\ sp_ticks = 0
  /\ sp_pc = "mounted"
  /\ ScanIdle
  /\ BtIdle /\ RankIdle /\ TgIdle /\ RerunIdle
  /\ ClIdle /\ DbIdle

\* disabled={batchStatus?.status === 'running'}
RunButtonEnabled == batchStatus # "running"

\* a click on the run button: handleRunBatch up to the await
SpClickRun ==
  /\ sp_pc = "mounted" /\ sp_clicks < MaxClicks
  /\ RunButtonEnabled
  /\ sp_clicks' = sp_clicks + 1
  /\ posts' = [posts EXCEPT !["sent"] = @ + 1]
  /\ UNCHANGED <<batchStatus, sp_error, backend, polls, timers, started, sp_ticks, sp_pc>>
  /\ UNCHANGED <<scanVars, btVars, rankVars, tgVars, rerunVars, clVars, dbVars>>

\* the backend answers POST /batch/run: the batch runs
BackendRun ==
  /\ sp_pc = "mounted" /\ posts["sent"] > 0
  /\ backend' = "running"
  /\ posts' = [posts EXCEPT !["sent"] = @ - 1, !["running"] = @ + 1]
  /\ UNCHANGED <<batchStatus, sp_error, polls, timers, started, sp_clicks, sp_ticks, sp_pc>>
  /\ UNCHANGED <<scanVars, btVars, rankVars, tgVars, rerunVars, clVars, dbVars>>

\* the batch ends
BackendFinish(st) ==
  /\ sp_pc = "mounted" /\ backend = "running"
  /\ st \in {"completed", "failed"}
  /\ backend' = st
  /\ UNCHANGED <<batchStatus, sp_error, posts, polls, timers, started, sp_clicks,
                 sp_ticks, sp_pc>>
  /\ UNCHANGED <<scanVars, btVars, rankVars, tgVars, rerunVars, clVars, dbVars>>

\* triggerBatch resolves: setBatchStatus(status), then setInterval
SpRunResolve(st) ==
  /\ sp_pc = "mounted" /\ st \in BatchStatuses /\ posts[st] > 0
  /\ posts' = [posts EXCEPT ![st] = @ - 1]
  /\ batchStatus' = st
  /\ started' = started + 1
  /\ timers' = timers \cup {started + 1}
  /\ UNCHANGED <<sp_error, backend, polls, sp_clicks, sp_ticks, sp_pc>>
  /\ UNCHANGED <<scanVars, btVars, rankVars, tgVars, rerunVars, clVars, dbVars>>

\* triggerBatch rejects: the catch block
SpRunReject ==
  /\ sp_pc = "mounted" /\ posts["sent"] > 0
  /\ posts' = [posts EXCEPT !["sent"] = @ - 1]
  /\ sp_error' = TRUE
  /\ UNCHANGED <<batchStatus, backend, polls, timers, started, sp_clicks, sp_ticks, sp_pc>>
  /\ UNCHANGED <<scanVars, btVars, rankVars, tgVars, rerunVars, clVars, dbVars>>

\* a tick of a timer that is set: the callback up to its await
SpTick(t) ==
  /\ sp_pc = "mounted" /\ t \in timers /\ sp_ticks < MaxTicks
  /\ sp_ticks' = sp_ticks + 1
  /\ polls' = [polls EXCEPT ![<<t, "sent">>] = @ + 1]
  /\ UNCHANGED <<batchStatus, sp_error, backend, posts, timers, started, sp_clicks, sp_pc>>
  /\ UNCHANGED <<scanVars, btVars, rankVars, tgVars, rerunVars, clVars, dbVars>>

\* the backend answers GET /batch/status with the status it has then
BackendStatus(t) ==
  /\ sp_pc = "mounted" /\ t \in TimerIds /\ polls[<<t, "sent">>] > 0
  /\ polls' = [polls EXCEPT ![<<t, "sent">>] = @ - 1, ![<<t, backend>>] = @ + 1]
  /\ UNCHANGED <<batchStatus, sp_error, backend, posts, timers, started, sp_clicks,
                 sp_ticks, sp_pc>>
  /\ UNCHANGED <<scanVars, btVars, rankVars, tgVars, rerunVars, clVars, dbVars>>

\* getBatchStatus resolves in the callback of timer t: setBatchStatus, and
\* clearInterval(pollStatus) unless the status is 'running'
SpPollResolve(t, st) ==
  /\ sp_pc = "mounted" /\ t \in TimerIds /\ st \in BatchStatuses
  /\ polls[<<t, st>>] > 0
  /\ polls' = [polls EXCEPT ![<<t, st>>] = @ - 1]
  /\ batchStatus' = st
  /\ timers' = IF st # "running" THEN timers \ {t} ELSE timers
  /\ UNCHANGED <<sp_error, backend, posts, started, sp_clicks, sp_ticks, sp_pc>>
  /\ UNCHANGED <<scanVars, btVars, rankVars, tgVars, rerunVars, clVars, dbVars>>

\* getBatchStatus rejects in the callback: nothing catches it, the timer stays
SpPollReject(t) ==
  /\ sp_pc = "mounted" /\ t \in TimerIds /\ polls[<<t, "sent">>] > 0
  /\ polls' = [polls EXCEPT ![<<t, "sent">>] = @ - 1]
  /\ UNCHANGED <<batchStatus, sp_error, backend, posts, timers, started, sp_clicks,
                 sp_ticks, sp_pc>>
  /\ UNCHANGED <<scanVars, btVars, rankVars, tgVars, rerunVars, clVars, dbVars>>

SpNext ==
  \/ SpClickRun
  \/ BackendRun
  \/ \E st \in BatchStatuses : BackendFinish(st)
  \/ \E st \in BatchStatuses : SpRunResolve(st)
  \/ SpRunReject
  \/ \E t \in TimerIds : SpTick(t)
  \/ \E t \in TimerIds : BackendStatus(t)
  \/ \E t \in TimerIds, st \in BatchStatuses : SpPollResolve(t, st)
  \/ \E t \in TimerIds : SpPollReject(t)

SpecSettingsPanel == SpInit /\ [][SpNext]_vars

Next == ScanNext \/ BtNext \/ RankNext \/ TgNext \/ RerunNext \/ ClNext \/ DbNext \/ SpNext
Spec ==
  /\ ScanInit \/ BtInit \/ RankInit \/ TgInit \/ RerunInit \/ ClInit \/ DbInit \/ SpInit
  /\ [][Next]_vars

\* ---------------------------------------------------------------- claims
\* C1: every emitted CorrelationRecord has |r| >= min_correlation and
\* p_value < significance_level / n_tests, with n_tests = N * (N-1) * max_lag
\* for N the number of tickers of the input universe.
C1_EmittedClearsBothBars ==
  \A k \in 1..Len(results) :
    LET r == results[k].correlation
        p == results[k].p_value
    IN /\ r[3] > 0
       /\ 100 * r[2] >= min_correlation * min_correlation * r[3]
       /\ p \in 0..PDen
       /\ p * AlphaDen * (Len(tickers) * (Len(tickers) - 1) * max_lag) < AlphaNum * PDen

\* a finished scan that emitted a record, kept another computed sample out,
\* and tested fewer pair/lags than n_tests counts
C1_Witness ==
  /\ pc = "done"
  /\ Len(results) > 0
  /\ Cardinality(samples) > Len(results)
  /\ Cardinality(samples) < Len(tickers) * (Len(tickers) - 1) * max_lag

\* C2: a lag with n < lag + 30 points in the date intersection is skipped
\* (no statistic computed, no record emitted) and the scan raises no error.
C2_ShortSamplesSkipped ==
  /\ pc # "error"
  /\ \A s \in samples : Len(s.a) >= s.lag + 30

\* C3: the lagged sample pairs x[i] = a[i] with y[i] = b[i + lag] for every
\* i in [0, n - lag) and no other index; both samples have length n - lag.
C3_LaggedSamplePairs ==
  \A s \in samples :
    LET n == Len(s.a) IN
      /\ Len(s.b) = n
      /\ Len(s.x) = n - s.lag
      /\ Len(s.y) = n - s.lag
      /\ \A i \in 1..(n - s.lag) : s.x[i] = s.a[i] /\ s.y[i] = s.b[i + s.lag]

\* a sample at a lag of two or more whose x and y differ
C3_Witness ==
  \E s \in samples : s.lag >= 2 /\ Len(s.x) >= 2 /\ s.x # s.y /\ s.a # s.b

\* the rows of the backtest frame by the rule of the specification, stated
\* on the frame itself: row i + lag holds the lag-th date after row i
TriggerRowSet ==
  {i \in 1..Len(bt_index) : bt_a[i] # NaN /\ Abs(bt_a[i]) >= trigger_threshold}
HasTarget(i) == i + bt_lag <= Len(bt_index)
DatesOf(rows) == {bt_index[i] : i \in rows}

\* C4: hit_rate is reported as null whenever total_signals = 0, never as the
\* number 0.0, and there is no division by zero.
NullRate == <<0, 0>>
C4_NullHitRateWithoutSignals ==
  bt_pc = "done" =>
    /\ bt_out.hit_rate[2] # 0 \/ bt_out.hit_rate = NullRate
    /\ bt_out.total_signals = 0 => bt_out.hit_rate = NullRate

\* C5: a trigger date with fewer than lag later dates in the index, or with no
\* observation of ticker_b (absent or missing value) at the target date, is
\* counted in neither total_signals nor successful_signals; every other
\* trigger date is counted exactly once in total_signals.
C5_UnobservedTargetsExcluded ==
  bt_pc = "done" =>
    LET Eligible == {i \in TriggerRowSet : HasTarget(i) /\ bt_b[i + bt_lag] # NaN}
    IN /\ {r.date : r \in {q \in seen : q.counted}} = DatesOf(Eligible)
       /\ {r.date : r \in {q \in seen : q.hit}} \subseteq DatesOf(Eligible)
       /\ bt_out.total_signals = Cardinality(Eligible)

\* C6: a date is a trigger date iff |return_a| >= trigger_threshold, and a
\* counted trigger is a hit iff sign(return_b at the target date) =
\* sign(return_a at the trigger date) and |return_b| >= response_threshold.
C6_TriggerAndHitRule ==
  bt_pc = "done" =>
    LET Counted == {i \in TriggerRowSet : bt_index[i] \in {r.date : r \in {q \in seen : q.counted}}}
        Hit == {i \in Counted :
                  LET a == bt_a[i]
                      b == bt_b[i + bt_lag]
                  IN /\ b # NaN
                     /\ (b > 0 /\ a > 0) \/ (b < 0 /\ a < 0) \/ (b = 0 /\ a = 0)
                     /\ Abs(b) >= response_threshold}
    IN /\ {r.date : r \in seen} = DatesOf(TriggerRowSet)
       /\ Cardinality(seen) = Cardinality(TriggerRowSet)
       /\ {r.date : r \in {q \in seen : q.hit}} = DatesOf(Hit)
       /\ bt_out.successful_signals = Cardinality(Hit)

\* a finished backtest with a hit, a counted miss, and a date that is present
\* but below the trigger threshold
C6_Witness ==
  /\ bt_pc = "done"
  /\ bt_out.successful_signals >= 1
  /\ bt_out.total_signals > bt_out.successful_signals
  /\ \E i \in 1..Len(bt_index) : bt_a[i] # NaN /\ i \notin TriggerRowSet

\* the candidate set of this call, stated on the inputs: the rows of
\* correlations_df whose ticker_a is the trigger ticker
CandidateSet ==
  {correlations_df[k] : k \in {j \in 1..Len(correlations_df) :
                                correlations_df[j].ticker_a = trigger_ticker}}
CandidateMaxP ==
  CHOOSE v \in {c.p_value : c \in CandidateSet} :
    \A c \in CandidateSet : c.p_value <= v
\* the backtest hit rate of a relationship in tenths, 0 when null or absent
HitOrZero(r) ==
  LET m == {k \in 1..Len(backtest_df) : /\ backtest_df[k].ticker_a = r.ticker_a
                                        /\ backtest_df[k].ticker_b = r.ticker_b
                                        /\ backtest_df[k].lag = r.lag
                                        /\ backtest_df[k].hit_rate # NaN}
  IN IF m = {} THEN 0 ELSE backtest_df[CHOOSE k \in m : TRUE].hit_rate

TickerRank(t) == CHOOSE i \in 1..3 : <<"A", "B", "C">>[i] = t

\* C8: returned candidates of equal score are ordered by descending
\* |correlation|, then ascending p_value, then ascending ticker_b.
C8_TieBreakOrder ==
  rk_pc = "done" =>
    \A i, j \in 1..Len(rk_out) :
      (i < j /\ ~ScoreGT(rk_out[i].score, rk_out[j].score)
             /\ ~ScoreGT(rk_out[j].score, rk_out[i].score)
             /\ rk_out[i].score # ScoreNaN) =>
        LET ci == Abs(rk_out[i].correlation)
            cj == Abs(rk_out[j].correlation)
            pi == rk_out[i].p_value
            pj == rk_out[j].p_value
        IN \/ ci > cj
           \/ ci = cj /\ pi < pj
           \/ ci = cj /\ pi = pj /\ TickerRank(rk_out[i].ticker_b) < TickerRank(rk_out[j].ticker_b)

\* C9: the returned sequence has length min(top_n, number of records with
\* ticker_a = trigger_ticker), holds only such records, each once, is sorted by
\* non-increasing score, and no omitted candidate outscores a returned one.
C9_TopNByScore ==
  rk_pc = "done" =>
    LET Key(r) == <<r.ticker_a, r.ticker_b, r.lag>>
        Returned == {Key(rk_out[k]) : k \in 1..Len(rk_out)}
        nc == Cardinality(CandidateSet)
    IN /\ Len(rk_out) = IF top_n < nc THEN top_n ELSE nc
       /\ \A k \in 1..Len(rk_out) :
            /\ rk_out[k].ticker_a = trigger_ticker
            /\ \E c \in CandidateSet :
                 /\ Key(c) = Key(rk_out[k])
                 /\ c.correlation = rk_out[k].correlation
                 /\ c.p_value = rk_out[k].p_value
       /\ Cardinality(Returned) = Len(rk_out)
       /\ \A i, j \in 1..Len(rk_out) :
            i < j => ~ScoreGT(rk_out[j].score, rk_out[i].score)
       /\ \A c \in CandidateSet : Key(c) \notin Returned =>
            \A k \in 1..Len(rk_out) :
              ~ScoreGT(Score(c.correlation, HitOrZero(c),
                             PValueNorm(c.p_value, CandidateMaxP)),
                       rk_out[k].score)

\* two candidates and a foreign row, top_n = 1: the candidate that comes later
\* in correlations_df is returned and the other, of smaller score, is omitted
C9_Witness ==
  /\ rk_pc = "done"
  /\ top_n = 1 /\ Len(rk_out) = 1
  /\ Len(correlations_df) = 3
  /\ Cardinality(CandidateSet) = 2
  /\ \E i, j \in 1..Len(correlations_df) :
        /\ i < j
        /\ correlations_df[i].ticker_a = trigger_ticker
        /\ correlations_df[j].ticker_b = rk_out[1].ticker_b
        /\ correlations_df[j].ticker_a = trigger_ticker
        /\ ScoreGT(rk_out[1].score,
                   Score(correlations_df[i].correlation, HitOrZero(correlations_df[i]),
                         PValueNorm(correlations_df[i].p_value, CandidateMaxP)))

\* C10: with exactly one candidate the p-value normalization term is 1, so
\* its score is 0.4 * |correlation| + 0.4 * hit_rate_or_zero + 0.2, also when
\* the single p_value is 0.
C10_SingleCandidateNormIsOne ==
  (rk_pc = "done" /\ Cardinality(CandidateSet) = 1 /\ Len(rk_out) = 1) =>
    LET r == rk_out[1] IN
      /\ r.score[2] > 0
      /\ r.score[1] * 100 = r.score[2] * (4 * Abs(r.correlation) + 4 * HitOrZero(r) + 20)

\* the backtest rows of a relationship's key
BacktestRowsOf(r) ==
  {k \in 1..Len(backtest_df) : /\ backtest_df[k].ticker_a = r.ticker_a
                               /\ backtest_df[k].ticker_b = r.ticker_b
                               /\ backtest_df[k].lag = r.lag}
\* the hit rate of the relationship is null, or it has no backtest row at all
NullOrAbsentHit(r) ==
  \A k \in BacktestRowsOf(r) : backtest_df[k].hit_rate = NaN

\* C11: a candidate whose hit rate is null, or that has no BacktestRecord, is
\* still returned by the ranking, scored with 0 in place of the hit rate: it
\* is left out only when top_n rows are returned without it, and the call
\* completes.
C11_NullHitRateKept ==
  rk_pc = "done" =>
    \A c \in CandidateSet : NullOrAbsentHit(c) =>
      LET at == {k \in 1..Len(rk_out) : /\ rk_out[k].ticker_b = c.ticker_b
                                        /\ rk_out[k].lag = c.lag}
          mp == CandidateMaxP
      IN /\ at = {} => Len(rk_out) = top_n
         /\ \A k \in at :
              mp # 0 =>
                /\ rk_out[k].score[2] > 0
                /\ rk_out[k].score[1] * 100 * mp =
                     rk_out[k].score[2] * (4 * Abs(c.correlation) * mp
                                           + 20 * (mp - c.p_value))

\* both kinds of candidate returned in one call, each with a numeric score:
\* one with a backtest row of null hit rate, one with no backtest row
C11_Witness ==
  /\ rk_pc = "done"
  /\ \E i, j \in 1..Len(rk_out) :
        /\ BacktestRowsOf(rk_out[i]) # {} /\ NullOrAbsentHit(rk_out[i])
        /\ BacktestRowsOf(rk_out[j]) = {}
        /\ rk_out[i].score # ScoreNaN /\ rk_out[j].score # ScoreNaN
        /\ rk_out[i].score[1] > 0

\* today's return and volume row of a ticker of the index
TgRetOf(t) == latest_returns[CHOOSE k \in 1..Len(tg_index) : tg_index[k] = t]
TgHasVolume(t) == t \in DOMAIN volume_data
\* the ticker qualifies by the rule of the specification
TgQualifies(t) ==
  /\ TgRetOf(t) # NaN
  /\ TgHasVolume(t)
  /\ volume_data[t].avg_20d_volume \notin {NaN, 0}
  /\ volume_data[t].today_volume # NaN
  /\ Abs(TgRetOf(t)) >= return_threshold
  /\ volume_data[t].today_volume * volume_threshold[2]
       >= volume_threshold[1] * volume_data[t].avg_20d_volume

\* C12: detect_triggers returns a ticker iff its return is present, its
\* average volume is present and non-zero, |return| >= return_threshold and
\* today_volume / avg_20period_volume >= volume_threshold; the returned
\* volume_ratio is today_volume / avg_20period_volume.
C12_TriggerIffBothConditions ==
  tg_pc = "done" =>
    /\ \A k \in 1..Len(tg_index) :
         TgQualifies(tg_index[k]) <=>
           \E j \in 1..Len(tg_out) : tg_out[j].ticker = tg_index[k]
    /\ \A j \in 1..Len(tg_out) :
         TgHasVolume(tg_out[j].ticker) =>
           tg_out[j].volume_ratio = <<volume_data[tg_out[j].ticker].today_volume,
                                      volume_data[tg_out[j].ticker].avg_20d_volume>>

\* C13: a ticker whose return is missing, or whose average volume is missing
\* or zero, never appears in the result whatever its today_volume, and its
\* presence never makes the call fail.
C13_UnusableTickersExcluded ==
  /\ tg_pc # "error"
  /\ \A j \in 1..Len(triggered) :
       LET t == triggered[j].ticker
       IN /\ TgRetOf(t) # NaN
          /\ TgHasVolume(t)
          /\ volume_data[t].avg_20d_volume \notin {NaN, 0}

\* C14: in the record set of one scan (one timeframe) no record has
\* ticker_a = ticker_b, every lag is in [1, max_lag], and no two records share
\* the key (ticker_a, ticker_b, timeframe, lag).
C14_RecordKeysWellFormed ==
  /\ \A k \in 1..Len(results) :
       /\ results[k].ticker_a # results[k].ticker_b
       /\ results[k].lag \in 1..max_lag
  /\ \A i, j \in 1..Len(results) :
       (/\ results[i].ticker_a = results[j].ticker_a
        /\ results[i].ticker_b = results[j].ticker_b
        /\ results[i].lag = results[j].lag) => i = j
  /\ \A s \in samples : s.ticker_a # s.ticker_b /\ s.lag \in 1..max_lag

\* a finished scan that emitted the relationship of two tickers in both
\* orders and computed a statistic at the largest lag
C14_Witness ==
  /\ pc = "done"
  /\ \E i, j \in 1..Len(results) :
        /\ results[i].ticker_a = results[j].ticker_b
        /\ results[i].ticker_b = results[j].ticker_a
  /\ \E s \in samples : s.lag = max_lag /\ max_lag > 1

\* C15: an emitted record has direction positive iff its correlation is > 0
\* and negative iff it is < 0, for every admissible min_correlation (0
\* included); a key never carries both directions.
C15_DirectionIsSign ==
  /\ \A k \in 1..Len(results) :
       LET r == results[k] IN
         /\ r.direction \in {"positive", "negative"}
         /\ r.direction = "positive" <=> (r.correlation[1] > 0 /\ r.correlation[2] > 0)
         /\ r.direction = "negative" <=> (r.correlation[1] < 0 /\ r.correlation[2] > 0)
  /\ \A i, j \in 1..Len(results) :
       (/\ results[i].ticker_a = results[j].ticker_a
        /\ results[i].ticker_b = results[j].ticker_b
        /\ results[i].lag = results[j].lag) => results[i].direction = results[j].direction

\* a finished scan with min_correlation = 0 that computed a correlation of
\* exactly 0 on one pair and emitted a negative relationship on another
C15_Witness ==
  /\ pc = "done" /\ min_correlation = 0
  /\ \E s \in samples :
        /\ Corrcoef(s.x, s.y) # CorrNaN
        /\ Corrcoef(s.x, s.y)[1] = 0
  /\ \E k \in 1..Len(results) : results[k].direction = "negative"

\* C16: a pair/lag whose lagged sample x or y has zero variance is skipped:
\* no record is emitted for it (none with correlation 0 either) and the scan
\* goes on with the remaining lags and pairs.
C16_ZeroVarianceSkipped ==
  \A s \in samples :
    (IsConstant(s.x) \/ IsConstant(s.y)) =>
      /\ \A k \in 1..Len(results) :
           ~(/\ results[k].ticker_a = s.ticker_a
             /\ results[k].ticker_b = s.ticker_b
             /\ results[k].lag = s.lag)
      /\ ~(/\ pc = "error"
           /\ tickers[ia] = s.ticker_a /\ tickers[ib] = s.ticker_b /\ lag = s.lag)

\* C17: the response to a trigger date d is read at the lag-th date strictly
\* after d that is present in the index (trading periods), not at d + lag
\* calendar days: gaps in the calendar do not change the position used.
C17_TradingPeriodLag ==
  \A r \in seen : r.counted =>
    LET dates == {bt_index[i] : i \in 1..Len(bt_index)}
    IN /\ r.target \in dates
       /\ Cardinality({d \in dates : r.date < d /\ d <= r.target}) = bt_lag
       /\ \E i \in 1..Len(bt_index) : bt_index[i] = r.target /\ bt_b[i] = r.response

\* a counted trigger whose response date is not its date plus lag days
C17_Witness ==
  /\ bt_pc = "done"
  /\ \E r \in seen : r.counted /\ r.target # r.date + bt_lag /\ r.response # NaN

\* C18: with both thresholds 0, if b at row i + lag equals a at row i for
\* every i with i + lag inside the series, then successful_signals =
\* total_signals, and hit_rate = 1.0 whenever total_signals > 0 (trigger
\* dates whose return is exactly 0 included).
C18_ShiftedCopyAlwaysHits ==
  (/\ bt_pc = "done"
   /\ trigger_threshold = 0 /\ response_threshold = 0
   /\ \A i \in 1..Len(bt_index) : HasTarget(i) => bt_b[i + bt_lag] = bt_a[i]) =>
    /\ bt_out.successful_signals = bt_out.total_signals
    /\ bt_out.total_signals > 0 =>
         /\ bt_out.hit_rate[2] > 0
         /\ bt_out.hit_rate[1] = bt_out.hit_rate[2]

\* a finished backtest of a shifted copy that counted a trigger of return 0
\* and a trigger of non-zero return
C18_Witness ==
  /\ bt_pc = "done"
  /\ trigger_threshold = 0 /\ response_threshold = 0
  /\ \A i \in 1..Len(bt_index) : HasTarget(i) => bt_b[i + bt_lag] = bt_a[i]
  /\ \E r, q \in seen : /\ r.counted /\ r.response = 0
                        /\ q.counted /\ q.response \notin {0, NaN}

\* C19: 0 <= successful_signals <= total_signals <= number of trigger dates
\* of ticker_a; a hit_rate that is defined (not null) is the quotient
\* successful_signals / total_signals, so it comes with total_signals > 0, and
\* lies in [0, 1].
C19_SignalCountsOrdered ==
  /\ bt_pc \in {"loop", "done"} =>
       /\ 0 <= hits /\ hits <= total
       /\ total <= Cardinality(TriggerRowSet)
  /\ bt_pc = "done" =>
       /\ 0 <= bt_out.successful_signals
       /\ bt_out.successful_signals <= bt_out.total_signals
       /\ bt_out.total_signals <= Cardinality(TriggerRowSet)
       /\ bt_out.hit_rate # NullRate =>
            /\ bt_out.total_signals > 0
            /\ bt_out.hit_rate[2] > 0
            /\ bt_out.hit_rate[1] * bt_out.total_signals
                 = bt_out.successful_signals * bt_out.hit_rate[2]
            /\ 0 <= bt_out.hit_rate[1] /\ bt_out.hit_rate[1] <= bt_out.hit_rate[2]

\* C20: a backtest on a frame without the ticker_b series fails with an error
\* surfaced to the caller: no BacktestRecord is produced, no default hit_rate
\* or signal count is substituted.
C20_MissingSeriesFails ==
  (bt_pc # "idle" /\ ~has_b) =>
    /\ bt_pc \in {"loop", "error"}
    /\ bt_pc = "loop" => bt_k = 1
    /\ bt_out = <<>>
    /\ hits = 0 /\ total = 0 /\ seen = {}

\* the failed call on a frame whose ticker_a has a trigger date
C20_Witness ==
  /\ bt_pc = "error" /\ ~has_b
  /\ TriggerRowSet # {}

\* C21: when no row of correlations_df has ticker_a = trigger_ticker the
\* ranking returns an empty sequence and the call completes: the maximum
\* p_value of the empty candidate set is NaN, not an error.
C21_NoCandidatesEmptyResult ==
  /\ (rk_pc = "done" /\ CandidateSet = {}) => rk_out = <<>>
  /\ (rk_pc = "call" /\ CandidateSet = {}) =>
       /\ MaxPval(FilterRows(correlations_df, trigger_ticker)) = NaN
       /\ ENABLED FindCandidatePairs

\* a completed call with top_n > 0 on a frame that holds only relationships
\* of another ticker
C21_Witness ==
  /\ rk_pc = "done"
  /\ CandidateSet = {}
  /\ correlations_df # <<>>
  /\ top_n > 0
  /\ rk_out = <<>>

\* the records of a list, as a set
RecordSet(rs) == {rs[k] : k \in 1..Len(rs)}

HasNaN(t) ==
  \E i \in 1..Len(tickers) :
    /\ tickers[i] = t
    /\ \E d \in 1..MaxLen : returns_df[i][d] = NaN

\* C24: a series with a NaN return is rejected before any statistic is
\* computed from it: no statistic and no emitted record is derived from such
\* a series (its NaN points are not dropped and the rest correlated), and the
\* scan of the other pairs is not aborted.
C24_NaNSeriesRejected ==
  /\ \A s \in samples : ~HasNaN(s.ticker_a) /\ ~HasNaN(s.ticker_b)
  /\ \A k \in 1..Len(results) :
       ~HasNaN(results[k].ticker_a) /\ ~HasNaN(results[k].ticker_b)
  /\ pc # "error"

\* C25: on every emitted record the correlation the engine computed lies in
\* [-1, 1] and the p-value in [0, 1].
C25_StatisticsInRange ==
  /\ \A k \in 1..Len(results) :
       LET r == results[k].correlation IN
         /\ r[1] \in {-1, 0, 1}
         /\ r[3] > 0 /\ 0 <= r[2] /\ r[2] <= r[3]
         /\ results[k].p_value >= 0 /\ results[k].p_value <= PDen

\* a finished scan that emitted a correlation of magnitude exactly 1 and one
\* strictly inside the interval
C25_Witness ==
  /\ pc = "done"
  /\ \E i, j \in 1..Len(results) :
        /\ results[i].correlation[2] = results[i].correlation[3]
        /\ results[i].p_value = 0
        /\ results[j].correlation[2] < results[j].correlation[3]
        /\ results[j].p_value > 0

\* C26: CandidateList renders the placeholder '-' for a candidate's hit rate
\* iff hitRate is null, and renders a known hit rate of exactly 0 as the
\* percentage 0.00%, in the ranking table and in the detail panel.
C26_PlaceholderIffNull ==
  /\ TableShown =>
       \A k \in 1..Len(cl_candidates) :
         /\ TableHitRates[k] = Placeholder <=> cl_candidates[k].hitRate = JsonNull
         /\ cl_candidates[k].hitRate = 0 => TableHitRates[k] = <<"%", 0>>
  /\ PanelShown =>
       /\ PanelHitRate = Placeholder <=> selectedCandidate.hitRate = JsonNull
       /\ selectedCandidate.hitRate = 0 => PanelHitRate = <<"%", 0>>

\* C28: whenever a candidate fetch has completed successfully and none is in
\* flight, selectedCandidate is null or an element of the current candidates
\* list, and no correlation-detail request is awaited for a candidate that
\* is not in that list.
FetchSettled ==
  /\ cl_pc = "mounted" /\ ~cl_loading /\ ~cl_error
  /\ \A tf \in Timeframes : cl_fetches[tf] = 0
InCandidates(t) == \E k \in 1..Len(cl_candidates) : cl_candidates[k].tickerB = t
C28_SelectionInList ==
  FetchSettled =>
    /\ selectedCandidate = NoCandidate
         \/ \E k \in 1..Len(cl_candidates) : cl_candidates[k] = selectedCandidate
    /\ \A key \in DetailKeys : cl_details[key] > 0 => InCandidates(key[1])

\* C27: in Dashboard, once no getTodayTriggers request is in flight the
\* triggers state holds the response of the request issued for the selected
\* timeframe (unless that request failed), and loading is false only when no
\* request is in flight.
DbInFlight == \E tf \in Timeframes : db_fetches[tf] > 0
C27_TriggersOfSelectedTimeframe ==
  db_pc = "mounted" =>
    /\ ~DbInFlight /\ ~db_error => triggers = db_server[db_timeframe]
    /\ ~db_loading => ~DbInFlight

\* C29: in SettingsPanel, once a poll of the batch status has observed a
\* status other than 'running', the timer is cleared, no status request is
\* issued any more and the displayed batchStatus stays at a non-running
\* status: a late response of an earlier poll never sets it back to 'running'.
PollingOver == started > 0 /\ timers = {} /\ \A st \in PostStates : posts[st] = 0
C29_StatusStaysFinal ==
  sp_pc = "mounted" /\ PollingOver => batchStatus # "running"

\* C30: in SettingsPanel at most one batch-status polling timer is set and at
\* most one POST /batch/run is under way at any time, whatever the clicks on
\* the run button and the timing of the triggerBatch responses.
PostsInFlight == posts["sent"] + posts["idle"] + posts["running"]
                   + posts["completed"] + posts["failed"]
C30_SingleTimerSingleRun ==
  sp_pc = "mounted" => Cardinality(timers) <= 1 /\ PostsInFlight <= 1

====
